---- MODULE Spec2Model ----
(***************************************************************************)
(* Webhook ingestion and retrieval service (app/main.py, app/storage.py,   *)
(* app/models.py, app/metrics.py, app/config.py).                          *)
(*                                                                         *)
(* Strings are sequences of one-character strings, so that strip, regex    *)
(* matching, suffix tests and the byte-wise comparison that SQLite uses    *)
(* for TEXT columns are computed and not assumed.  None is the one-element *)
(* sequence <<"None">>, which is no character string.                      *)
(*                                                                         *)
(* A webhook request is handled by a worker in the steps of the handler:   *)
(* the checks of main.py 84-135, the INSERT statement, the commit (or the  *)
(* close after an IntegrityError) and the response.  SQLite serialises     *)
(* writers: the INSERT takes the database write lock and keeps it until    *)
(* the transaction ends; a second writer waits in the busy handler         *)
(* (sqlite3.connect's default timeout) until the lock is free.             *)
(***************************************************************************)
EXTENDS Integers, Sequences, FiniteSets, Bags, TLC

VARIABLES
    secret,     \* Settings.webhook_secret, cached for the process lifetime
    messages,   \* committed rows of table messages, in rowid order
    dbLock,     \* set of workers holding the SQLite write lock (at most one)
    now,        \* wall clock read by datetime('now')
    counters,   \* webhook_requests_total by result label
    stored,     \* messages_stored_total
    workers,    \* per worker: position in webhook_endpoint and its locals
    served,     \* bag of the webhook requests answered: request, response,
                \* result of the insert, whether the store held the id
    nreq,       \* number of webhook requests received so far
    readers,    \* per read client: position in its handler (get_messages,
                \* stats, health_live, health_ready) and the handler's locals
    dbUp        \* sqlite3.connect and the queries on the connection succeed

vars == <<secret, messages, dbLock, now, counters, stored, workers, served,
          nreq, readers, dbUp>>

----------------------------------------------------------------------------
(* Bounds *)

NumWorkers == 2
MaxRequests == 3
MaxClock == 1
MaxLimit == 2
MaxOffset == 2

Workers == 1..NumWorkers
\* One listing client: listings write nothing, so they do not affect each other.
Readers == {1}

----------------------------------------------------------------------------
(* Strings *)

None == <<"None">>

\* Code points of the characters the model uses (ASCII).
CharCode ==
    ( "\n" :> 10 @@ " " :> 32 @@ "%" :> 37 @@ "+" :> 43 @@ "-" :> 45 @@
      "." :> 46 @@ "0" :> 48 @@ "1" :> 49 @@ "2" :> 50 @@ "3" :> 51 @@
      "4" :> 52 @@ "5" :> 53 @@ "6" :> 54 @@ "7" :> 55 @@ "8" :> 56 @@
      "9" :> 57 @@ ":" :> 58 @@ "H" :> 72 @@ "T" :> 84 @@ "Z" :> 90 @@
      "_" :> 95 @@ "a" :> 97 @@ "b" :> 98 @@ "e" :> 101 @@ "h" :> 104 @@
      "i" :> 105 @@ "l" :> 108 @@ "m" :> 109 @@ "o" :> 111 )

Digits == {"0", "1", "2", "3", "4", "5", "6", "7", "8", "9"}
Whitespace == {" ", "\n"}

DigitVal(c) == CharCode[c] - 48

IsDigits(s) == \A i \in 1..Len(s) : s[i] \in Digits

RECURSIVE NumVal(_)
NumVal(s) ==
    IF s = <<>> THEN 0
    ELSE 10 * NumVal(SubSeq(s, 1, Len(s) - 1)) + DigitVal(s[Len(s)])

\* str.strip(): drop leading and trailing whitespace.
RECURSIVE LStrip(_)
LStrip(s) ==
    IF s # <<>> /\ s[1] \in Whitespace THEN LStrip(Tail(s)) ELSE s

RECURSIVE RStrip(_)
RStrip(s) ==
    IF s # <<>> /\ s[Len(s)] \in Whitespace
    THEN RStrip(SubSeq(s, 1, Len(s) - 1)) ELSE s

Strip(s) == RStrip(LStrip(s))

\* str.endswith(suffix)
EndsWith(s, suffix) ==
    /\ Len(s) >= Len(suffix)
    /\ SubSeq(s, Len(s) - Len(suffix) + 1, Len(s)) = suffix

\* str.replace(old, new) for a one-character old.
RECURSIVE Replace(_, _, _)
Replace(s, old, new) ==
    IF s = <<>> THEN <<>>
    ELSE (IF s[1] = old THEN new ELSE <<s[1]>>) \o Replace(Tail(s), old, new)

\* Comparison of two TEXT values under SQLite's BINARY collation (memcmp).
RECURSIVE TextLess(_, _)
TextLess(a, b) ==
    IF b = <<>> THEN FALSE
    ELSE IF a = <<>> THEN TRUE
    ELSE IF CharCode[a[1]] # CharCode[b[1]] THEN CharCode[a[1]] < CharCode[b[1]]
    ELSE TextLess(Tail(a), Tail(b))

TextLeq(a, b) == a = b \/ TextLess(a, b)

----------------------------------------------------------------------------
(* Payload validation (app/models.py) *)

MaxTextLen == 4096

\* E164_REGEX.match(v) for ^\+[1-9]\d{1,14}$ : in Python "$" matches at the
\* end of the string and also just before a newline that ends the string.
E164Match(v) ==
    LET core == IF v # <<>> /\ v[Len(v)] = "\n"
                THEN SubSeq(v, 1, Len(v) - 1) ELSE v
    IN  /\ Len(core) >= 3
        /\ Len(core) <= 16
        /\ core[1] = "+"
        /\ core[2] \in Digits \ {"0"}
        /\ IsDigits(SubSeq(core, 3, Len(core)))

\* datetime._parse_hh_mm_ss_ff: HH[:MM[:SS[.fff[fff]]]], no range checks.
ParseHhMmSs(t) ==
    LET n == Len(t)
        two(i) == SubSeq(t, i, i + 1)
        shape ==
            \/ n = 2 /\ IsDigits(t)
            \/ n = 5 /\ IsDigits(two(1)) /\ t[3] = ":" /\ IsDigits(two(4))
            \/ /\ n \in {8, 12, 15}
               /\ IsDigits(two(1)) /\ t[3] = ":" /\ IsDigits(two(4))
               /\ t[6] = ":" /\ IsDigits(two(7))
               /\ n > 8 => (t[9] = "." /\ IsDigits(SubSeq(t, 10, n)))
    IN  IF ~shape THEN [ok |-> FALSE, h |-> 0, m |-> 0, s |-> 0]
        ELSE [ok |-> TRUE,
              h |-> NumVal(two(1)),
              m |-> IF n >= 5 THEN NumVal(two(4)) ELSE 0,
              s |-> IF n >= 8 THEN NumVal(two(7)) ELSE 0]

DaysInMonth(y, m) ==
    IF m = 2
    THEN (IF y % 4 = 0 /\ (y % 100 # 0 \/ y % 400 = 0) THEN 29 ELSE 28)
    ELSE IF m \in {4, 6, 9, 11} THEN 30 ELSE 31

\* Index of the first "-" of t, else of the first "+", else 0
\* (tstr.find('-') + 1 or tstr.find('+') + 1).
TzPos(t) ==
    LET at(c) == {i \in 1..Len(t) : t[i] = c}
        first(S) == CHOOSE i \in S : \A j \in S : i <= j
    IN  IF at("-") # {} THEN first(at("-"))
        ELSE IF at("+") # {} THEN first(at("+"))
        ELSE 0

\* datetime.fromisoformat(s) succeeds (CPython 3.7 - 3.10 grammar):
\* YYYY-MM-DD, then optionally one separator character and a time with an
\* optional UTC offset; the components must be in range.
FromIsoFormatOk(s) ==
    /\ Len(s) >= 10
    /\ IsDigits(SubSeq(s, 1, 4)) /\ s[5] = "-"
    /\ IsDigits(SubSeq(s, 6, 7)) /\ s[8] = "-"
    /\ IsDigits(SubSeq(s, 9, 10))
    /\ LET y == NumVal(SubSeq(s, 1, 4))
           mo == NumVal(SubSeq(s, 6, 7))
           d == NumVal(SubSeq(s, 9, 10))
       IN  /\ y >= 1
           /\ mo \in 1..12
           /\ d >= 1 /\ d <= DaysInMonth(y, mo)
    /\ Len(s) > 11 =>
         LET t == SubSeq(s, 12, Len(s))
             tz == TzPos(t)
             timestr == IF tz > 0 THEN SubSeq(t, 1, tz - 1) ELSE t
             tzstr == IF tz > 0 THEN SubSeq(t, tz + 1, Len(t)) ELSE <<>>
             tc == ParseHhMmSs(timestr)
             zc == ParseHhMmSs(tzstr)
         IN  /\ tc.ok /\ tc.h <= 23 /\ tc.m <= 59 /\ tc.s <= 59
             /\ tz > 0 =>
                  /\ Len(tzstr) \in {5, 8, 15}
                  /\ zc.ok
                  /\ zc.h * 3600 + zc.m * 60 + zc.s < 86400

validate_message_id(v) == v # <<>> /\ Strip(v) # <<>>

validate_from(v) == E164Match(v)

validate_to(v) == E164Match(v)

validate_ts(v) ==
    /\ EndsWith(v, <<"Z">>)
    /\ FromIsoFormatOk(Replace(v, "Z", <<"+", "0", "0", ":", "0", "0">>))

validate_text(v) == ~(v # None /\ Len(v) > MaxTextLen)

\* MessageIn.parse_obj(obj): obj is a JSON value; an object is a function
\* from key names to strings or None.  Returns the validated payload or
\* the marker Invalid.  Keys other than the declared ones are ignored.
Invalid == [invalid |-> TRUE]

IsObject(obj) == obj.kind = "object"

Field(obj, key) == IF key \in DOMAIN obj.fields THEN obj.fields[key] ELSE None

MessageIn(obj) ==
    IF ~IsObject(obj) THEN Invalid
    ELSE
      LET mid == Field(obj, "message_id")
          frm == Field(obj, "from")
          to == Field(obj, "to")
          ts == Field(obj, "ts")
          text == Field(obj, "text")
      IN  IF /\ mid # None /\ validate_message_id(mid)
             /\ frm # None /\ validate_from(frm)
             /\ to # None /\ validate_to(to)
             /\ ts # None /\ validate_ts(ts)
             /\ validate_text(text)
          THEN [message_id |-> mid, from_ |-> frm, to |-> to, ts |-> ts,
                text |-> text]
          ELSE Invalid

----------------------------------------------------------------------------
(* Signature verification and body parsing (app/main.py) *)

\* The character of the model that is not ASCII.
NonAscii == {"U+00E9"}

\* hmac.new(key, body, sha256).hexdigest(): HMAC-SHA256 is taken as a
\* collision-free keyed digest, written as the key and the raw bytes of the
\* body (body.raw names them) joined by ":".
HmacHex(key, body) == key \o <<":">> \o body.raw

\* A verification that accepts every signature.
verify_signature_any(sec, body, signature_header) == "True"

\* A verification that compares the header as it came, without strip().
verify_signature_unstripped(sec, body, signature_header) ==
    LET provided_sig == signature_header
        computed == HmacHex(sec, body)
    IN  IF \E i \in 1..Len(provided_sig) : provided_sig[i] \in NonAscii
        THEN "TypeError"
        ELSE IF computed = provided_sig THEN "True" ELSE "False"

\* verify_signature(secret, body, signature_header): "True", "False", or
\* "TypeError" when hmac.compare_digest is given a str that is not ASCII.
verify_signature(sec, body, signature_header) ==
    LET provided_sig == Strip(signature_header)
        computed == HmacHex(sec, body)
    IN  IF \E i \in 1..Len(provided_sig) : provided_sig[i] \in NonAscii
        THEN "TypeError"
        ELSE IF computed = provided_sig THEN "True" ELSE "False"

\* json.loads(raw_body.decode("utf-8")): the JSON value of the body, or the
\* exception raised (UnicodeDecodeError is no JSONDecodeError).
JsonLoads(body) ==
    IF ~body.utf8 THEN [kind |-> "UnicodeDecodeError"]
    ELSE IF ~body.json THEN [kind |-> "JSONDecodeError"]
    ELSE body.doc

\* Responses
Resp(code, text) == [status |-> code, body |-> text]

RespOk == Resp(200, "status: ok")
RespNoSecret == Resp(500, "detail: WEBHOOK_SECRET is not configured")
RespBadSignature == Resp(401, "detail: Invalid signature")
RespBadJson == Resp(400, "detail: Invalid JSON payload")
RespBadPayload == Resp(422, "detail: Invalid payload schema")
RespMissingHeader == Resp(422, "detail: field required")
RespInternalError == Resp(500, "Internal Server Error")

\* A response that tells a duplicate from a first delivery.
WebhookResponseConflict(created) ==
    IF created THEN RespOk ELSE Resp(409, "detail: Duplicate message")

\* The response of webhook_endpoint after insert_message_idempotent returned.
WebhookResponse(created) == RespOk

\* Lines 73-135 of webhook_endpoint: the outcome of the checks that precede
\* the insert, as the response to send and the counter label to increment
\* ("" for none), or the payload to insert.
WebhookChecks(sec, req) ==
    IF req.sig = None
    THEN [resp |-> RespMissingHeader, label |-> "", payload |-> Invalid]
    ELSE IF sec = <<>>
    THEN [resp |-> RespNoSecret, label |-> "", payload |-> Invalid]
    ELSE
      LET v == verify_signature(sec, req.body, req.sig)
          body_json == JsonLoads(req.body)
          payload == MessageIn(body_json)
      IN  IF v = "TypeError"
          THEN [resp |-> RespInternalError, label |-> "", payload |-> Invalid]
          ELSE IF v = "False"
          THEN [resp |-> RespBadSignature, label |-> "invalid_signature",
                payload |-> Invalid]
          ELSE IF body_json.kind = "UnicodeDecodeError"
          THEN [resp |-> RespInternalError, label |-> "", payload |-> Invalid]
          ELSE IF body_json.kind = "JSONDecodeError"
          THEN [resp |-> RespBadJson, label |-> "invalid_json",
                payload |-> Invalid]
          ELSE IF payload = Invalid
          THEN [resp |-> RespBadPayload, label |-> "invalid_payload",
                payload |-> Invalid]
          ELSE [resp |-> RespOk, label |-> "ok", payload |-> payload]

----------------------------------------------------------------------------
(* Inputs *)

NoSecret == <<>>
Secret1 == <<"a">>
Secret2 == <<"b">>

M1 == <<"m", "1">>
M2 == <<"m", "2">>
M3 == <<"m", "3">>
PhoneA == <<"+", "1", "1">>
PhoneB == <<"+", "2", "2">>
PhoneBad == <<"1", "2", "3", "4", "5">>
Day == <<"2", "0", "2", "5", "-", "0", "1", "-", "1", "5">>
Ts0 == Day \o <<"T", "0", "9", ":", "0", "0", ":", "0", "0", "Z">>
Ts1 == Day \o <<"T", "1", "0", ":", "0", "0", ":", "0", "0", "Z">>
TsBad == Day \o <<" ", "1", "0", ":", "0", "0", ":", "0", "0">>
Hello == <<"H", "e", "l", "l", "o">>

Obj(mid, frm, to, ts, text) ==
    [kind |-> "object",
     fields |-> [message_id |-> mid, from |-> frm, to |-> to, ts |-> ts,
                 text |-> text]]

JsonBody(raw, doc) == [raw |-> raw, utf8 |-> TRUE, json |-> TRUE, doc |-> doc]

Body1 == JsonBody(<<"1">>, Obj(M1, PhoneA, PhoneB, Ts1, Hello))
Body1b == JsonBody(<<"2">>, Obj(M1, PhoneB, PhoneA, Ts0, None))
Body2 == JsonBody(<<"3">>, Obj(M2, PhoneA, PhoneB, Ts1, None))
Body3 == JsonBody(<<"4">>, Obj(M3, PhoneB, PhoneA, Ts0, Hello))
BodyBadFrom == JsonBody(<<"5">>, Obj(M1, PhoneBad, PhoneB, Ts1, Hello))
BodyBadTs == JsonBody(<<"6">>, Obj(M1, PhoneA, PhoneB, TsBad, Hello))
BodyArray == JsonBody(<<"7">>, [kind |-> "array"])
BodyBadJson ==
    [raw |-> <<"8">>, utf8 |-> TRUE, json |-> FALSE, doc |-> [kind |-> "none"]]
BodyBadUtf8 ==
    [raw |-> <<"9">>, utf8 |-> FALSE, json |-> FALSE, doc |-> [kind |-> "none"]]

ValidBodies == {Body1, Body1b, Body2, Body3}
InvalidBodies == {BodyBadFrom, BodyBadTs, BodyArray, BodyBadJson, BodyBadUtf8}

\* Signature headers a client sends with body b: signed with the service's
\* secret, the same surrounded by whitespace, signed with another secret,
\* a header with a non-ASCII character, and no header at all.
GoodSig(b) == HmacHex(Secret1, b)
PaddedSig(b) == <<" ">> \o HmacHex(Secret1, b) \o <<"\n">>
WrongSig(b) == HmacHex(Secret2, b)
NonAsciiSig(b) == <<"U+00E9">>

Req(b, sig) == [body |-> b, sig |-> sig]

SignedRequests == {Req(b, GoodSig(b)) : b \in ValidBodies}

Requests ==
    {Req(b, GoodSig(b)) :
        b \in {Body1, Body1b, Body2, BodyBadFrom, BodyBadJson, BodyBadUtf8}}
    \cup {Req(b, WrongSig(b)) : b \in {Body1, BodyBadJson}}
    \cup {Req(Body1, PaddedSig(Body1)), Req(Body1, NonAsciiSig(Body1)),
          Req(Body1, None)}

----------------------------------------------------------------------------
(* Message store (app/storage.py) *)

\* A table without the PRIMARY KEY constraint.
UniqueViolationNever(rows, mid) == FALSE

\* The PRIMARY KEY constraint of table messages: a row with this message_id
\* is already committed.
UniqueViolation(rows, mid) == \E i \in 1..Len(rows) : rows[i].message_id = mid

\* The row written by the INSERT of insert_message_idempotent.
NewRow(msg, clock) ==
    [message_id |-> msg.message_id, from_msisdn |-> msg.from_,
     to_msisdn |-> msg.to, ts |-> msg.ts, text |-> msg.text,
     created_at |-> clock]

\* Writers that do not exclude each other.
CanWriteAlways(p) == TRUE

\* The write lock is free (or already ours): the INSERT can start its
\* transaction.
CanWrite(p) == dbLock \subseteq {p}

\* ORDER BY ts ASC, without the tie-break.
RowLessTsOnly(a, b) == TextLess(a.ts, b.ts)

\* ORDER BY ts ASC, message_id ASC
RowLess(a, b) ==
    \/ TextLess(a.ts, b.ts)
    \/ a.ts = b.ts /\ TextLess(a.message_id, b.message_id)

\* Sorting keeps rows that compare equal in rowid order.
RECURSIVE InsertSorted(_, _)
InsertSorted(sorted, r) ==
    IF sorted = <<>> THEN <<r>>
    ELSE IF RowLess(r, sorted[1]) THEN <<r>> \o sorted
    ELSE <<sorted[1]>> \o InsertSorted(Tail(sorted), r)

RECURSIVE OrderBy(_)
OrderBy(rows) ==
    IF rows = <<>> THEN <<>>
    ELSE InsertSorted(OrderBy(SubSeq(rows, 1, Len(rows) - 1)), rows[Len(rows)])

\* SQLite folds the case of ASCII letters in LIKE.
Fold(c) ==
    IF c \in DOMAIN CharCode /\ CharCode[c] \in 65..90
    THEN CHOOSE d \in {"h", "t", "z"} :
           d = (IF c = "H" THEN "h" ELSE IF c = "T" THEN "t" ELSE "z")
    ELSE c

\* text LIKE pattern: % matches any run of characters, _ any one character.
RECURSIVE Like(_, _)
Like(text, pat) ==
    IF pat = <<>> THEN text = <<>>
    ELSE IF pat[1] = "%"
    THEN \E k \in 0..Len(text) : Like(SubSeq(text, k + 1, Len(text)), Tail(pat))
    ELSE /\ text # <<>>
         /\ pat[1] = "_" \/ Fold(pat[1]) = Fold(text[1])
         /\ Like(Tail(text), Tail(pat))

\* A test that takes the empty string for a filter (is not None).
GivenNotNone(f) == f # None

\* A filter that is None or empty adds no clause (if from_filter: ...).
Given(f) == f # None /\ f # <<>>

\* A since filter that is an exclusive lower bound (ts > ?).
WhereSinceExclusive(r, a) ==
    /\ Given(a.from_filter) => r.from_msisdn = a.from_filter
    /\ Given(a.since) => TextLess(a.since, r.ts)
    /\ Given(a.q) => (r.text # None /\ Like(r.text, <<"%">> \o a.q \o <<"%">>))

\* The WHERE clause list_messages builds from its filters.
Where(r, a) ==
    /\ Given(a.from_filter) => r.from_msisdn = a.from_filter
    /\ Given(a.since) => TextLeq(a.since, r.ts)
    /\ Given(a.q) => (r.text # None /\ Like(r.text, <<"%">> \o a.q \o <<"%">>))

Matching(rows, a) ==
    LET test(r) == Where(r, a) IN SelectSeq(rows, test)

\* A count that forgets the WHERE clause.
CountQueryAll(rows, a) == Len(rows)

\* SELECT COUNT(*) ... WHERE ...
CountQuery(rows, a) == Len(Matching(rows, a))

\* An OFFSET that is one row short.
LimitOffsetShort(rows, limit, offset) ==
    LET o == IF offset < 1 THEN 0 ELSE offset - 1
        last == IF limit < 0 \/ o + limit > Len(rows) THEN Len(rows)
                ELSE o + limit
    IN  SubSeq(rows, o + 1, last)

\* LIMIT ? OFFSET ? (a negative limit is no limit, a negative offset is 0).
LimitOffset(rows, limit, offset) ==
    LET o == IF offset < 0 THEN 0 ELSE offset
        last == IF limit < 0 \/ o + limit > Len(rows) THEN Len(rows)
                ELSE o + limit
    IN  SubSeq(rows, o + 1, last)

\* SELECT ... WHERE ... ORDER BY ts ASC, message_id ASC LIMIT ? OFFSET ?
DataQuery(rows, a) == LimitOffset(OrderBy(Matching(rows, a)), a.limit, a.offset)

\* The dict list_messages builds from a row.
Item(r) ==
    [message_id |-> r.message_id, from |-> r.from_msisdn, to |-> r.to_msisdn,
     ts |-> r.ts, text |-> r.text]

Items(rows) == [i \in 1..Len(rows) |-> Item(rows[i])]

\* LIMIT of the top senders query.
TopLimit == 10

SendersOf(rows) == {rows[i].from_msisdn : i \in 1..Len(rows)}

\* COUNT(*) of the group of sender s.
CountFrom(rows, s) ==
    Cardinality({i \in 1..Len(rows) : rows[i].from_msisdn = s})

\* GROUP BY from_msisdn: one row per sender of S, in ascending sender order
\* (the order of idx_messages_from), or in descending order when desc.
RECURSIVE GroupBy(_, _, _)
GroupBy(rows, S, desc) ==
    IF S = {} THEN <<>>
    ELSE LET s == CHOOSE x \in S : \A y \in S \ {x} :
                    IF desc THEN TextLess(y, x) ELSE TextLess(x, y)
         IN  <<[sender |-> s, count |-> CountFrom(rows, s)]>>
               \o GroupBy(rows, S \ {s}, desc)

\* ORDER BY cnt DESC; groups with equal counts keep their order.
RECURSIVE InsertByCount(_, _)
InsertByCount(sorted, g) ==
    IF sorted = <<>> THEN <<g>>
    ELSE IF g.count > sorted[1].count THEN <<g>> \o sorted
    ELSE <<sorted[1]>> \o InsertByCount(Tail(sorted), g)

RECURSIVE OrderByCntDesc(_)
OrderByCntDesc(groups) ==
    IF groups = <<>> THEN <<>>
    ELSE InsertByCount(OrderByCntDesc(SubSeq(groups, 1, Len(groups) - 1)),
                       groups[Len(groups)])

\* A top senders query without its LIMIT.
TopSendersAll(rows, desc) ==
    OrderByCntDesc(GroupBy(rows, SendersOf(rows), desc))

\* SELECT from_msisdn AS sender, COUNT(*) AS cnt ... GROUP BY from_msisdn
\* ORDER BY cnt DESC LIMIT 10.  SQL leaves the order of senders with equal
\* counts open: desc chooses between the two orders of a stable sort.
TopSenders(rows, desc) ==
    LimitOffset(OrderByCntDesc(GroupBy(rows, SendersOf(rows), desc)),
                TopLimit, 0)

\* A first timestamp that is the empty string on an empty table.
FirstTsEmptyString(rows) == IF rows = <<>> THEN <<>> ELSE OrderBy(rows)[1].ts

\* SELECT ts ... ORDER BY ts ASC, message_id ASC LIMIT 1; None without row.
FirstTs(rows) == IF rows = <<>> THEN None ELSE OrderBy(rows)[1].ts

\* SELECT ts ... ORDER BY ts DESC, message_id DESC LIMIT 1: message_id is
\* unique, so the descending order is the ascending one reversed.
LastTs(rows) ==
    IF rows = <<>> THEN None
    ELSE LET sorted == OrderBy(rows) IN sorted[Len(sorted)].ts

ListArgs ==
    [limit : 1..MaxLimit, offset : 0..MaxOffset,
     from_filter : {None, PhoneA}, since : {None, Ts1}, q : {None, <<"h">>}]

----------------------------------------------------------------------------
(* State *)

IdleWorker == [pc |-> "idle"]
IdleReader == [pc |-> "idle"]

\* A read client whose request has been answered: the endpoint, the
\* response, the number of database connections the handler opened and
\* whether the database could be opened.
Responded(endpoint, resp, connects, reachable) ==
    [pc |-> "responded", endpoint |-> endpoint, resp |-> resp,
     connects |-> connects, reachable |-> reachable]

Labels == {"ok", "invalid_signature", "invalid_json", "invalid_payload"}

\* A counter update that books every outcome as ok.
IncOk(ctr, label) ==
    IF label \in Labels THEN [ctr EXCEPT !["ok"] = @ + 1] ELSE ctr

\* webhook_requests_total.labels(result=label).inc(); no counter is touched
\* on the paths that have no label.
Inc(ctr, label) ==
    IF label \in Labels THEN [ctr EXCEPT ![label] = @ + 1] ELSE ctr

Init ==
    /\ secret \in {NoSecret, Secret1}
    /\ messages = <<>>
    /\ dbLock = {}
    /\ now = 0
    /\ counters = [l \in Labels |-> 0]
    /\ stored = 0
    /\ workers = [p \in Workers |-> IdleWorker]
    /\ served = EmptyBag
    /\ nreq = 0
    /\ readers = [r \in Readers |-> IdleReader]
    /\ dbUp = TRUE

----------------------------------------------------------------------------
(* POST /webhook *)

\* The message_id a request body carries, valid or not (None without one).
RequestId(req) ==
    LET v == JsonLoads(req.body)
    IN  IF v.kind = "object" THEN Field(v, "message_id") ELSE None

\* The record of an answered request.
Served(req, resp, insert) ==
    [req |-> req, resp |-> resp, insert |-> insert,
     held |-> UniqueViolation(messages, RequestId(req))]

\* webhook_endpoint up to the call of insert_message_idempotent (73-135):
\* a rejected request is answered at once, an accepted one goes on to the
\* insert with its validated payload.  A request takes the first free worker.
WebhookRequest(p, req) ==
    /\ workers[p].pc = "idle"
    /\ \A q \in Workers : q < p => workers[q].pc # "idle"
    /\ nreq < MaxRequests
    /\ nreq' = nreq + 1
    /\ LET c == WebhookChecks(secret, req)
       IN  IF c.payload = Invalid
           THEN /\ counters' = Inc(counters, c.label)
                /\ served' = served (+) SetToBag({Served(req, c.resp, "NotCalled")})
                /\ UNCHANGED workers
           ELSE /\ workers' = [workers EXCEPT ![p] =
                     [pc |-> "insert", req |-> req, payload |-> c.payload,
                      raced |-> FALSE]]
                /\ UNCHANGED <<counters, served>>
    /\ UNCHANGED <<dbUp, secret, messages, dbLock, now, stored, readers>>

\* insert_message_idempotent, get_connection() and conn.execute(INSERT ...)
\* (63-72, 75): the statement opens a transaction and takes the write lock;
\* it raises IntegrityError when the message_id is already in the table.
\* When the database cannot be opened the sqlite3 error is not caught and
\* the request is answered 500.
InsertExecute(p) ==
    /\ workers[p].pc = "insert"
    /\ IF ~dbUp
       THEN /\ workers' = [workers EXCEPT ![p] = IdleWorker]
            /\ served' = served (+) SetToBag({
                 Served(workers[p].req, RespInternalError, "Raised")})
            /\ UNCHANGED dbLock
       ELSE /\ CanWrite(p)
            /\ dbLock' = {p}
            /\ LET race == \E q \in Workers \ {p} :
                             /\ workers[q].pc = "insert"
                             /\ workers[q].payload.message_id =
                                  workers[p].payload.message_id
               IN  IF UniqueViolation(messages, workers[p].payload.message_id)
                   THEN workers' = [workers EXCEPT ![p].pc = "close"]
                   ELSE workers' = [workers EXCEPT ![p] =
                          [pc |-> "commit", req |-> @.req,
                           payload |-> @.payload, raced |-> race,
                           row |-> NewRow(@.payload, now)]]
            /\ UNCHANGED served
    /\ UNCHANGED <<dbUp, secret, messages, now, counters, stored, nreq,
                   readers>>

\* conn.commit(); return True (73-74): the row becomes visible and the lock
\* is released.
InsertCommit(p) ==
    /\ workers[p].pc = "commit"
    /\ messages' = Append(messages, workers[p].row)
    /\ dbLock' = dbLock \ {p}
    /\ workers' = [workers EXCEPT ![p] =
         [pc |-> "respond", req |-> @.req, payload |-> @.payload,
          raced |-> @.raced, created |-> TRUE]]
    /\ UNCHANGED <<dbUp, secret, now, counters, stored, served, nreq, readers>>

\* A duplicate that overwrites the stored row (an upsert).
InsertDuplicateOverwrite(p) ==
    /\ workers[p].pc = "close"
    /\ dbLock' = dbLock \ {p}
    /\ messages' = [i \in 1..Len(messages) |->
         IF messages[i].message_id = workers[p].payload.message_id
         THEN NewRow(workers[p].payload, now) ELSE messages[i]]
    /\ workers' = [workers EXCEPT ![p] =
         [pc |-> "respond", req |-> @.req, payload |-> @.payload,
          raced |-> @.raced, created |-> FALSE]]
    /\ UNCHANGED <<dbUp, secret, now, counters, stored, served, nreq, readers>>

\* except sqlite3.IntegrityError: return False (75-77); leaving the with
\* block closes the connection, which ends the transaction.
InsertDuplicate(p) ==
    /\ workers[p].pc = "close"
    /\ dbLock' = dbLock \ {p}
    /\ workers' = [workers EXCEPT ![p] =
         [pc |-> "respond", req |-> @.req, payload |-> @.payload,
          raced |-> @.raced, created |-> FALSE]]
    /\ UNCHANGED <<dbUp, secret, messages, now, counters, stored, served, nreq,
                   readers>>

\* webhook_endpoint after the insert (139-156).
WebhookRespond(p) ==
    /\ workers[p].pc = "respond"
    /\ counters' = Inc(counters, "ok")
    /\ stored' = IF workers[p].created THEN stored + 1 ELSE stored
    /\ served' = served (+) SetToBag({
         Served(workers[p].req, WebhookResponse(workers[p].created),
                IF workers[p].created THEN "Created" ELSE "Duplicate")})
    /\ workers' = [workers EXCEPT ![p] = IdleWorker]
    /\ UNCHANGED <<dbUp, secret, messages, dbLock, now, nreq, readers>>

\* Time passes.
Tick ==
    /\ now < MaxClock
    /\ now' = now + 1
    /\ UNCHANGED <<dbUp, secret, messages, dbLock, counters, stored, workers, served,
                   nreq, readers>>

----------------------------------------------------------------------------
(* GET /messages *)

\* get_messages calls list_messages with the query parameters (158-171).
ListRequest(r, a) ==
    /\ readers[r].pc = "idle"
    /\ readers' = [readers EXCEPT ![r] = [pc |-> "count", args |-> a]]
    /\ UNCHANGED <<dbUp, secret, messages, dbLock, now, counters, stored, workers,
                   served, nreq>>

\* Query(50, ge=1, le=100) and Query(0, ge=0): the default and the range of
\* the query parameters limit and offset.
LimitDefault == 50
LimitMin == 1
LimitMax == 100
OffsetDefault == 0
OffsetMin == 0

\* The int a query parameter denotes (decimal digits, with sign or without).
ParseInt(raw) ==
    IF raw # <<>> /\ IsDigits(raw) THEN [ok |-> TRUE, val |-> NumVal(raw)]
    ELSE IF Len(raw) >= 2 /\ raw[1] = "-" /\ IsDigits(Tail(raw))
    THEN [ok |-> TRUE, val |-> 0 - NumVal(Tail(raw))]
    ELSE [ok |-> FALSE, val |-> 0]

\* A limit parameter that is brought into its range when it is outside.
LimitParamClamped(raw) ==
    IF raw = None THEN [ok |-> TRUE, val |-> LimitDefault]
    ELSE LET n == ParseInt(raw)
         IN  [ok |-> n.ok,
              val |-> IF n.val < LimitMin THEN LimitMin
                      ELSE IF n.val > LimitMax THEN LimitMax ELSE n.val]

\* limit: int = Query(50, ge=1, le=100): the value the handler gets, or the
\* parameter is refused.
LimitParam(raw) ==
    IF raw = None THEN [ok |-> TRUE, val |-> LimitDefault]
    ELSE LET n == ParseInt(raw)
         IN  [ok |-> n.ok /\ n.val >= LimitMin /\ n.val <= LimitMax,
              val |-> n.val]

\* offset: int = Query(0, ge=0)
OffsetParam(raw) ==
    IF raw = None THEN [ok |-> TRUE, val |-> OffsetDefault]
    ELSE LET n == ParseInt(raw)
         IN  [ok |-> n.ok /\ n.val >= OffsetMin, val |-> n.val]

RespQueryInvalid == Resp(422, "detail: value is not a valid limit or offset")

\* The query strings of the listing requests: limit and offset omitted, in
\* range, at and beyond the ends of their ranges, and not a number.
QueryParams ==
    [limit : {None, <<"0">>, <<"1">>, <<"2">>, <<"1", "0", "0">>,
              <<"1", "0", "1">>, <<"a">>},
     offset : {None, <<"-", "1">>, <<"0">>, <<"1">>},
     from : {None}, since : {None}, q : {None}]

\* GET /messages with query string qp (158-171): the framework validates
\* limit and offset against their declarations and answers 422 itself when
\* one is refused; otherwise get_messages runs and calls list_messages.
\* The arguments carry the query string along, under query.
GetMessages(r, qp) ==
    /\ readers[r].pc = "idle"
    /\ LET l == LimitParam(qp.limit)
           o == OffsetParam(qp.offset)
       IN  readers' = [readers EXCEPT ![r] =
             IF l.ok /\ o.ok
             THEN [pc |-> "count",
                   args |-> [limit |-> l.val, offset |-> o.val,
                             from_filter |-> qp.from, since |-> qp.since,
                             q |-> qp.q, query |-> qp]]
             ELSE [pc |-> "responded", endpoint |-> "messages",
                   resp |-> RespQueryInvalid, connects |-> 0,
                   reachable |-> FALSE, query |-> qp]]
    /\ UNCHANGED <<dbUp, secret, messages, dbLock, now, counters, stored,
                   workers, served, nreq>>

\* list_messages, get_connection() and the count query (114-117).  When
\* the database cannot be opened the sqlite3 error reaches the framework,
\* which answers 500.
ListCount(r) ==
    /\ readers[r].pc = "count"
    /\ readers' = [readers EXCEPT ![r] =
         IF ~dbUp
         THEN Responded("messages", RespInternalError, 1, FALSE)
         ELSE [pc |-> "data", args |-> @.args,
               total |-> CountQuery(messages, @.args),
               seenCount |-> Len(messages)]]
    /\ UNCHANGED <<dbUp, secret, messages, dbLock, now, counters, stored, workers,
                   served, nreq>>

\* list_messages, the data query and the result (120-141).
ListData(r) ==
    /\ readers[r].pc = "data"
    /\ readers' = [readers EXCEPT ![r] =
         [pc |-> "done", args |-> @.args, total |-> @.total,
          seenCount |-> @.seenCount,
          items |-> Items(DataQuery(messages, @.args)),
          seenData |-> Len(messages)]]
    /\ UNCHANGED <<dbUp, secret, messages, dbLock, now, counters, stored, workers,
                   served, nreq>>

\* MessagesPage(items=items, total=total, limit=limit, offset=offset)
MessagesPage(rd) ==
    [items |-> rd.items, total |-> rd.total, limit |-> rd.args.limit,
     offset |-> rd.args.offset]

\* get_messages returns the page (173-200).
ListReturn(r) ==
    /\ readers[r].pc = "done"
    /\ readers' = [readers EXCEPT ![r] = IdleReader]
    /\ UNCHANGED <<dbUp, secret, messages, dbLock, now, counters, stored, workers,
                   served, nreq>>

----------------------------------------------------------------------------
(* GET /stats, GET /health/live, GET /health/ready *)

RespLive == Resp(200, "status: ok")
RespReady == Resp(200, "status: ok")
RespNotReadySecret == Resp(503, "detail: WEBHOOK_SECRET is not configured")
RespNotReadyDb == Resp(503, "detail: Database not ready")

\* stats calls get_stats (203-206).
StatsRequest(r) ==
    /\ readers[r].pc = "idle"
    /\ readers' = [readers EXCEPT ![r] = [pc |-> "connect", caller |-> "stats"]]
    /\ UNCHANGED <<dbUp, secret, messages, dbLock, now, counters, stored,
                   workers, served, nreq>>

\* get_stats, get_connection() and SELECT COUNT(*) (147-149).  An error of
\* sqlite3 leaves get_stats as an exception.
StatsTotal(r) ==
    /\ readers[r].pc = "connect"
    /\ readers' = [readers EXCEPT ![r] =
         IF ~dbUp
         THEN [pc |-> "raised", caller |-> @.caller]
         ELSE [pc |-> "senders", caller |-> @.caller,
               total_messages |-> Len(messages), seenFirst |-> Len(messages)]]
    /\ UNCHANGED <<dbUp, secret, messages, dbLock, now, counters, stored,
                   workers, served, nreq>>

\* SELECT COUNT(DISTINCT from_msisdn) (151-154).
StatsSenders(r) ==
    /\ readers[r].pc = "senders"
    /\ readers' = [readers EXCEPT ![r] =
         [pc |-> "top", caller |-> @.caller,
          total_messages |-> @.total_messages, seenFirst |-> @.seenFirst,
          senders_count |-> Cardinality(SendersOf(messages))]]
    /\ UNCHANGED <<dbUp, secret, messages, dbLock, now, counters, stored,
                   workers, served, nreq>>

\* The top senders query (156-167).
StatsTop(r) ==
    /\ readers[r].pc = "top"
    /\ \E desc \in BOOLEAN :
         readers' = [readers EXCEPT ![r] =
           [pc |-> "first", caller |-> @.caller,
            total_messages |-> @.total_messages, seenFirst |-> @.seenFirst,
            senders_count |-> @.senders_count,
            messages_per_sender |-> TopSenders(messages, desc)]]
    /\ UNCHANGED <<dbUp, secret, messages, dbLock, now, counters, stored,
                   workers, served, nreq>>

\* The first timestamp query (169-171, 176).
StatsFirst(r) ==
    /\ readers[r].pc = "first"
    /\ readers' = [readers EXCEPT ![r] =
         [pc |-> "last", caller |-> @.caller,
          total_messages |-> @.total_messages, seenFirst |-> @.seenFirst,
          senders_count |-> @.senders_count,
          messages_per_sender |-> @.messages_per_sender,
          first_message_ts |-> FirstTs(messages)]]
    /\ UNCHANGED <<dbUp, secret, messages, dbLock, now, counters, stored,
                   workers, served, nreq>>

\* The last timestamp query; get_stats returns its dict (172-185).
StatsLast(r) ==
    /\ readers[r].pc = "last"
    /\ readers' = [readers EXCEPT ![r] =
         [pc |-> "returned", caller |-> @.caller,
          total_messages |-> @.total_messages, seenFirst |-> @.seenFirst,
          senders_count |-> @.senders_count,
          messages_per_sender |-> @.messages_per_sender,
          first_message_ts |-> @.first_message_ts,
          last_message_ts |-> LastTs(messages), seenLast |-> Len(messages)]]
    /\ UNCHANGED <<dbUp, secret, messages, dbLock, now, counters, stored,
                   workers, served, nreq>>

\* The dict get_stats returns (179-185).
StatsData(rd) ==
    [total_messages |-> rd.total_messages, senders_count |-> rd.senders_count,
     messages_per_sender |-> rd.messages_per_sender,
     first_message_ts |-> rd.first_message_ts,
     last_message_ts |-> rd.last_message_ts]

\* stats answers with the StatsOut built from the dict (208-231); an
\* exception of get_stats is not caught and the framework answers 500.
StatsRespond(r) ==
    /\ readers[r].pc \in {"returned", "raised"}
    /\ readers[r].caller = "stats"
    /\ readers' = [readers EXCEPT ![r] =
         IF @.pc = "returned"
         THEN Responded("stats", [status |-> 200, body |-> StatsData(@)],
                        1, TRUE)
         ELSE Responded("stats", RespInternalError, 1, FALSE)]
    /\ UNCHANGED <<dbUp, secret, messages, dbLock, now, counters, stored,
                   workers, served, nreq>>

\* health_live (233-237).
HealthLive(r) ==
    /\ readers[r].pc = "idle"
    /\ readers' = [readers EXCEPT ![r] = Responded("live", RespLive, 0, FALSE)]
    /\ UNCHANGED <<dbUp, secret, messages, dbLock, now, counters, stored,
                   workers, served, nreq>>

\* A readiness probe that does not look at the secret.
HealthReadyNoSecretCheck(r) ==
    /\ readers[r].pc = "idle"
    /\ readers' = [readers EXCEPT ![r] = [pc |-> "connect", caller |-> "ready"]]
    /\ UNCHANGED <<dbUp, secret, messages, dbLock, now, counters, stored,
                   workers, served, nreq>>

\* health_ready up to the call of get_stats (243-252).
HealthReady(r) ==
    /\ readers[r].pc = "idle"
    /\ readers' = [readers EXCEPT ![r] =
         IF secret = <<>>
         THEN Responded("ready", RespNotReadySecret, 0, FALSE)
         ELSE [pc |-> "connect", caller |-> "ready"]]
    /\ UNCHANGED <<dbUp, secret, messages, dbLock, now, counters, stored,
                   workers, served, nreq>>

\* health_ready after get_stats: any exception is answered 503 (253-282).
ReadyRespond(r) ==
    /\ readers[r].pc \in {"returned", "raised"}
    /\ readers[r].caller = "ready"
    /\ readers' = [readers EXCEPT ![r] =
         IF @.pc = "returned" THEN Responded("ready", RespReady, 1, TRUE)
         ELSE Responded("ready", RespNotReadyDb, 1, FALSE)]
    /\ UNCHANGED <<dbUp, secret, messages, dbLock, now, counters, stored,
                   workers, served, nreq>>

\* The response has left; the client may send its next request.
ResponseSent(r) ==
    /\ readers[r].pc = "responded"
    /\ readers' = [readers EXCEPT ![r] = IdleReader]
    /\ UNCHANGED <<dbUp, secret, messages, dbLock, now, counters, stored,
                   workers, served, nreq>>

\* The database file becomes unreachable: connections that are open stay
\* usable, new ones cannot be opened.
StoreDown ==
    /\ dbUp
    /\ dbUp' = FALSE
    /\ UNCHANGED <<secret, messages, dbLock, now, counters, stored, workers,
                   served, nreq, readers>>

StoreUp ==
    /\ ~dbUp
    /\ dbUp' = TRUE
    /\ UNCHANGED <<secret, messages, dbLock, now, counters, stored, workers,
                   served, nreq, readers>>

----------------------------------------------------------------------------
(* Specifications *)

Ingest ==
    \E p \in Workers :
        \/ InsertExecute(p)
        \/ InsertCommit(p)
        \/ InsertDuplicate(p)
        \/ WebhookRespond(p)

\* Ingestion: every kind of webhook request, concurrent workers.
Next ==
    \/ \E p \in Workers : \E req \in Requests : WebhookRequest(p, req)
    \/ Ingest
    \/ Tick

Spec == Init /\ [][Next]_vars

\* Retrieval: listings concurrent with the ingestion of signed messages by
\* one worker.
InitQuery == Init /\ secret = Secret1

NextQuery ==
    \/ \E req \in SignedRequests : WebhookRequest(1, req)
    \/ InsertExecute(1)
    \/ InsertCommit(1)
    \/ InsertDuplicate(1)
    \/ WebhookRespond(1)
    \/ \E r \in Readers : \E a \in ListArgs : ListRequest(r, a)
    \/ \E r \in Readers : ListCount(r) \/ ListData(r) \/ ListReturn(r)

SpecQuery == InitQuery /\ [][NextQuery]_vars

\* Signatures: requests of a client that signs with either of two secrets,
\* the body it sends or another one, and may pad the header with
\* whitespace.  Body1Spaced is Body1 with other bytes for the same JSON
\* value.
Body1Spaced == JsonBody(<<"1", "a">>, Obj(M1, PhoneA, PhoneB, Ts1, Hello))

SignedBodies == {Body1, Body1Spaced}

Secrets == {Secret1, Secret2}

Padded(sig) ==
    {sig, <<" ">> \o sig, sig \o <<"\n">>, <<" ">> \o sig \o <<"\n">>}

SignatureRequests ==
    {Req(b, sig) :
        b \in SignedBodies,
        sig \in UNION {{HmacHex(k, signed),
                         <<" ">> \o HmacHex(k, signed) \o <<"\n">>} :
                           k \in Secrets, signed \in SignedBodies}}

InitSignature ==
    /\ secret \in Secrets
    /\ messages = <<>>
    /\ dbLock = {}
    /\ now = 0
    /\ counters = [l \in Labels |-> 0]
    /\ stored = 0
    /\ workers = [p \in Workers |-> IdleWorker]
    /\ served = EmptyBag
    /\ nreq = 0
    /\ readers = [r \in Readers |-> IdleReader]
    /\ dbUp = TRUE

NextSignature ==
    \/ \E req \in SignatureRequests : WebhookRequest(1, req)
    \/ InsertExecute(1)
    \/ InsertCommit(1)
    \/ InsertDuplicate(1)
    \/ WebhookRespond(1)

SpecSignature == InitSignature /\ [][NextSignature]_vars

\* Validation: signed requests whose payloads are at and beyond the limits
\* of the rules of MessageIn.
TextOfLen(n) == [i \in 1..n |-> "a"]

PhoneNewline == PhoneA \o <<"\n">>

BodyText4096 ==
    JsonBody(<<"1", "0">>, Obj(M2, PhoneA, PhoneB, Ts1, TextOfLen(MaxTextLen)))
BodyText4097 ==
    JsonBody(<<"1", "1">>,
             Obj(M2, PhoneA, PhoneB, Ts1, TextOfLen(MaxTextLen + 1)))
BodyExtraField ==
    JsonBody(<<"1", "2">>,
             [kind |-> "object",
              fields |-> [message_id |-> M3, from |-> PhoneA, to |-> PhoneB,
                          ts |-> Ts0, text |-> None, extra |-> Hello]])
BodyBlankId == JsonBody(<<"1", "3">>, Obj(<<" ">>, PhoneA, PhoneB, Ts1, Hello))
BodyNoTo ==
    JsonBody(<<"1", "4">>,
             [kind |-> "object",
              fields |-> [message_id |-> M1, from |-> PhoneA, ts |-> Ts1]])
BodyNewlineFrom ==
    JsonBody(<<"1", "5">>, Obj(M3, PhoneNewline, PhoneB, Ts1, Hello))

ValidationRequests ==
    {Req(b, GoodSig(b)) :
        b \in {Body1, BodyBadFrom, BodyBadTs, BodyText4096, BodyText4097,
               BodyExtraField, BodyBlankId, BodyNoTo, BodyNewlineFrom}}

NextValidation ==
    \/ \E req \in ValidationRequests : WebhookRequest(1, req)
    \/ InsertExecute(1)
    \/ InsertCommit(1)
    \/ InsertDuplicate(1)
    \/ WebhookRespond(1)

SpecValidation == InitQuery /\ [][NextValidation]_vars

\* Empty filters: listings whose filters are left out, empty or set,
\* concurrent with the ingestion of signed messages by one worker.
EmptyFilterArgs ==
    [limit : {MaxLimit}, offset : {0}, from_filter : {None, <<>>, PhoneA},
     since : {None, <<>>, Ts1}, q : {None, <<>>}]

NextEmptyFilter ==
    \/ \E req \in SignedRequests : WebhookRequest(1, req)
    \/ InsertExecute(1)
    \/ InsertCommit(1)
    \/ InsertDuplicate(1)
    \/ WebhookRespond(1)
    \/ \E r \in Readers : \E a \in EmptyFilterArgs : ListRequest(r, a)
    \/ \E r \in Readers : ListCount(r) \/ ListData(r) \/ ListReturn(r)

SpecEmptyFilter == InitQuery /\ [][NextEmptyFilter]_vars

\* Listing parameters: listings with every kind of limit and offset,
\* concurrent with the ingestion of signed messages by one worker.
NextParams ==
    \/ \E req \in SignedRequests : WebhookRequest(1, req)
    \/ InsertExecute(1)
    \/ InsertCommit(1)
    \/ InsertDuplicate(1)
    \/ WebhookRespond(1)
    \/ \E r \in Readers : \E qp \in QueryParams : GetMessages(r, qp)
    \/ \E r \in Readers : ListCount(r) \/ ListData(r) \/ ListReturn(r)
    \/ \E r \in Readers : ResponseSent(r)

SpecParams == InitQuery /\ [][NextParams]_vars

\* Tables that earlier requests have stored: none, and twelve messages of
\* eleven senders, "+35" with two of them.
Ts2 == Day \o <<"T", "1", "1", ":", "0", "0", ":", "0", "0", "Z">>

DigitChar(k) == CHOOSE c \in Digits : DigitVal(c) = k

StoredRow(tens, unit, sender, ts) ==
    [message_id |-> <<"m", tens, unit>>, from_msisdn |-> sender,
     to_msisdn |-> PhoneB, ts |-> ts, text |-> None, created_at |-> 0]

ElevenSenders ==
    [k \in 1..12 |->
        IF k <= 10
        THEN StoredRow("3", DigitChar(k - 1), <<"+", "3", DigitChar(k - 1)>>,
                       IF k % 2 = 0 THEN Ts2 ELSE Ts1)
        ELSE IF k = 11 THEN StoredRow("4", "0", <<"+", "4", "0">>, Ts1)
        ELSE StoredRow("4", "1", <<"+", "3", "5">>, Ts1)]

StatsTables == {<<>>, ElevenSenders}

\* Statistics: stats requests concurrent with the ingestion of signed
\* messages by one worker, on a table that may already hold messages.
InitStats ==
    /\ secret = Secret1
    /\ messages \in StatsTables
    /\ dbLock = {}
    /\ now = 0
    /\ counters = [l \in Labels |-> 0]
    /\ stored = 0
    /\ workers = [p \in Workers |-> IdleWorker]
    /\ served = EmptyBag
    /\ nreq = 0
    /\ readers = [r \in Readers |-> IdleReader]
    /\ dbUp = TRUE

NextStats ==
    \/ \E req \in SignedRequests : WebhookRequest(1, req)
    \/ InsertExecute(1)
    \/ InsertCommit(1)
    \/ InsertDuplicate(1)
    \/ WebhookRespond(1)
    \/ \E r \in Readers : StatsRequest(r)
    \/ \E r \in Readers :
         StatsTotal(r) \/ StatsSenders(r) \/ StatsTop(r) \/ StatsFirst(r)
           \/ StatsLast(r)
    \/ \E r \in Readers : StatsRespond(r) \/ ResponseSent(r)

SpecStats == InitStats /\ [][NextStats]_vars

\* Probes: liveness and readiness probes concurrent with ingestion by one
\* worker, while the database comes and goes.
NextProbe ==
    \/ \E req \in SignedRequests : WebhookRequest(1, req)
    \/ InsertExecute(1)
    \/ InsertCommit(1)
    \/ InsertDuplicate(1)
    \/ WebhookRespond(1)
    \/ StoreDown
    \/ StoreUp
    \/ \E r \in Readers : HealthLive(r) \/ HealthReady(r)
    \/ \E r \in Readers :
         StatsTotal(r) \/ StatsSenders(r) \/ StatsTop(r) \/ StatsFirst(r)
           \/ StatsLast(r)
    \/ \E r \in Readers : ReadyRespond(r) \/ ResponseSent(r)

SpecProbe == Init /\ [][NextProbe]_vars

----------------------------------------------------------------------------
(* Properties of the ingestion path (checked under Spec) *)

Entries == BagToSet(served)

Copies(e) == CopiesIn(e, served)

RECURSIVE SumCopies(_)
SumCopies(S) ==
    IF S = {} THEN 0
    ELSE LET e == CHOOSE x \in S : TRUE IN Copies(e) + SumCopies(S \ {e})

RowsOf(mid) == {i \in 1..Len(messages) : messages[i].message_id = mid}

MessageIds == {M1, M2, M3}

\* A request that carries a valid message under a valid signature.
ValidSigned(req) ==
    /\ req.body \in ValidBodies
    /\ req.sig \in {GoodSig(req.body), PaddedSig(req.body)}

\* Insert calls for mid that have returned with the given result: those
\* already answered and those whose worker is about to answer.
Returned(mid, created) ==
    SumCopies({e \in Entries :
                 /\ e.insert = (IF created THEN "Created" ELSE "Duplicate")
                 /\ RequestId(e.req) = mid})
    + Cardinality({p \in Workers :
                 /\ workers[p].pc = "respond"
                 /\ workers[p].created = created
                 /\ workers[p].payload.message_id = mid})

\* C1: every submission of a valid message under a valid signature is
\* answered 200 {"status": "ok"}, whether it created the row or hit a
\* duplicate, and the store then holds exactly one row with its message_id.
C1_Idempotency ==
    secret = Secret1 =>
        \A e \in Entries :
            ValidSigned(e.req) =>
                /\ e.resp = RespOk
                /\ Cardinality(RowsOf(RequestId(e.req))) = 1

\* A message submitted three times: created once, a duplicate twice.
C1_Witness ==
    \E a, b \in Entries :
        /\ a.req = b.req
        /\ ValidSigned(a.req)
        /\ a.insert = "Created"
        /\ b.insert = "Duplicate"
        /\ Copies(b) = 2

\* C2: of the concurrent insert_message_idempotent calls with one
\* message_id exactly one returns True (Created), every other returns False
\* (Duplicate), and the table holds exactly one complete row for the id.
C2_ExactlyOneCreated ==
    /\ Cardinality(dbLock) <= 1
    /\ \A mid \in MessageIds :
        /\ Returned(mid, TRUE) <= 1
        /\ Returned(mid, FALSE) > 0 => Returned(mid, TRUE) = 1
        /\ Cardinality(RowsOf(mid)) = Returned(mid, TRUE)
        /\ \A i \in RowsOf(mid) :
             /\ messages[i].from_msisdn # None
             /\ messages[i].to_msisdn # None
             /\ messages[i].ts # None

\* Two calls with the same id that were in insert_message_idempotent at the
\* same time have both returned: one Created, one Duplicate.
C2_Witness ==
    \E p, q \in Workers :
        /\ p # q
        /\ workers[p].pc = "respond" /\ workers[q].pc = "respond"
        /\ workers[p].payload.message_id = workers[q].payload.message_id
        /\ workers[p].created /\ workers[p].raced
        /\ ~workers[q].created

\* C3: a stored row never changes and never disappears: every step leaves
\* each committed row as it is (from, to, ts, text, created_at), and a step
\* that adds a row adds one row, with a new id and the values of the insert
\* that is committing.
C3_FirstWriteWins ==
    [][ /\ Len(messages') >= Len(messages)
        /\ \A i \in 1..Len(messages) : messages'[i] = messages[i]
        /\ Len(messages') > Len(messages) =>
             /\ Len(messages') = Len(messages) + 1
             /\ RowsOf(messages'[Len(messages')].message_id) = {}
             /\ \E p \in Workers :
                  /\ workers[p].pc = "commit"
                  /\ messages'[Len(messages')] = workers[p].row
                  /\ Item(workers[p].row) =
                       [message_id |-> workers[p].payload.message_id,
                        from |-> workers[p].payload.from_,
                        to |-> workers[p].payload.to,
                        ts |-> workers[p].payload.ts,
                        text |-> workers[p].payload.text]
      ]_vars

\* A later delivery with the id of a stored row and other field values was
\* answered as a duplicate, after the clock moved on.
C3_Witness ==
    \E e \in Entries : \E i \in 1..Len(messages) :
        /\ e.insert = "Duplicate"
        /\ messages[i].message_id = RequestId(e.req)
        /\ messages[i].ts # e.req.body.doc.fields.ts
        /\ messages[i].text # e.req.body.doc.fields.text
        /\ messages[i].created_at < now

\* C4: without a configured secret every webhook request ends with the
\* service-unavailable outcome (503, as the readiness probe reports), is
\* never accepted and stores nothing.
C4_NoSecretUnavailable ==
    secret = NoSecret =>
        /\ messages = <<>>
        /\ \A e \in Entries :
             /\ e.req.sig # None => e.resp.status = 503
             /\ e.insert = "NotCalled"

\* The outcome C5 states for a request that carries a signature header.
C5_Status(req) ==
    IF Strip(req.sig) # HmacHex(Secret1, req.body) THEN 401
    ELSE IF ~(req.body.utf8 /\ req.body.json) THEN 400
    ELSE IF req.body \notin ValidBodies THEN 422
    ELSE 200

\* C5: with a configured secret the checks run in the order signature, JSON
\* parse, schema validation, insert, and the first failing check decides
\* the outcome: 401, 400, 422, else 200.
C5_CheckOrder ==
    secret = Secret1 =>
        \A e \in Entries :
            e.req.sig # None => e.resp.status = C5_Status(e.req)

\* C6: a step that answers a request with a non-success outcome changes
\* neither the table nor the newly-created counter, such a request never
\* reached the insert, and the table changes only in the commit of a request
\* that carried a valid message under a valid signature.
C6_RejectedLeavesStore ==
    [][ /\ \A e \in BagToSet(served') :
             (CopiesIn(e, served') > CopiesIn(e, served)
              /\ e.resp.status # 200) =>
                 /\ messages' = messages
                 /\ stored' = stored
                 /\ e.insert = "NotCalled"
        /\ messages' # messages =>
             \E p \in Workers :
                 /\ workers[p].pc = "commit"
                 /\ secret # NoSecret
                 /\ ValidSigned(workers[p].req)
        /\ stored' # stored =>
             \E p \in Workers :
                 /\ workers[p].pc = "respond"
                 /\ ValidSigned(workers[p].req)
      ]_vars

\* A bad signature and a malformed or invalid body were rejected while the
\* table held a row.
C6_Witness ==
    /\ Len(messages) = 1
    /\ stored = 1
    /\ \E a, b \in Entries :
        /\ a.resp.status = 401
        /\ b.resp.status \in {400, 422}

\* C7: the response to a request does not depend on the contents of the
\* store: two requests with the same body and signature header get the same
\* response, whether or not the store held the message_id when they were
\* answered, and whether the insert created a row or met a duplicate.
C7_NonInterference ==
    \A a, b \in Entries : a.req = b.req => a.resp = b.resp

\* The same rejected request was answered once when the store did not hold
\* its message_id and once when it did.
C7_Witness ==
    \E a, b \in Entries :
        /\ a.req = b.req
        /\ a.resp.status \in {401, 422}
        /\ ~a.held /\ b.held

----------------------------------------------------------------------------
(* Properties of the listing (checked under SpecQuery) *)

Done(r) == readers[r].pc = "done"

\* The table as the data query of reader r saw it (rows are only appended).
Snapshot(r) == SubSeq(messages, 1, readers[r].seenData)

\* The count and the data query of reader r saw the same table.
Unchanged(r) == readers[r].seenCount = readers[r].seenData

Ids(items) == [i \in 1..Len(items) |-> items[i].message_id]

Range(f) == {f[i] : i \in DOMAIN f}

Min(a, b) == IF a < b THEN a ELSE b

Max(a, b) == IF a > b THEN a ELSE b

\* Strictly ascending by (ts, message_id).
KeyLess(x, y) ==
    \/ TextLess(x.ts, y.ts)
    \/ x.ts = y.ts /\ TextLess(x.message_id, y.message_id)

\* C8: list() returns its items strictly ascending by (ts, message_id), and
\* the result is the same for every order in which the stored rows could
\* have been inserted.
C8_DeterministicOrdering ==
    \A r \in Readers :
        Done(r) =>
            LET it == readers[r].items
                snap == Snapshot(r)
            IN  /\ \A i \in 1..(Len(it) - 1) : KeyLess(it[i], it[i + 1])
                /\ \A perm \in Permutations(1..Len(snap)) :
                     Items(DataQuery([i \in 1..Len(snap) |-> snap[perm[i]]],
                                     readers[r].args)) = it

\* A listing returned two messages with the same ts in message_id order,
\* which were inserted in the opposite order.
C8_Witness ==
    \E r \in Readers :
        /\ Done(r)
        /\ Len(readers[r].items) >= 2
        /\ readers[r].items[1].ts = readers[r].items[2].ts
        /\ \E i, j \in 1..readers[r].seenData :
             /\ i < j
             /\ messages[i].message_id = readers[r].items[2].message_id
             /\ messages[j].message_id = readers[r].items[1].message_id

\* C9: on one table, the page at offset O and the page at offset O + L
\* (same filters, limit L) share no id, and one after the other they are
\* the page at offset O with limit 2L.
C9_Pagination ==
    \A r \in Readers :
        Done(r) =>
            LET a == readers[r].args
                first == Ids(readers[r].items)
                second == Ids(Items(DataQuery(Snapshot(r),
                              [a EXCEPT !.offset = a.offset + a.limit])))
                both == Ids(Items(DataQuery(Snapshot(r),
                              [a EXCEPT !.limit = 2 * a.limit])))
            IN  /\ Range(first) \cap Range(second) = {}
                /\ first \o second = both

\* A listing at a positive offset returned a full page and rows remain for
\* the next page.
C9_Witness ==
    \E r \in Readers :
        /\ Done(r)
        /\ readers[r].args.offset >= 1
        /\ Len(readers[r].items) = readers[r].args.limit
        /\ CountQuery(Snapshot(r), readers[r].args) >
             readers[r].args.offset + readers[r].args.limit

\* C10: when the table did not change between the two queries of a listing,
\* total is the number of stored rows that satisfy the filters, whatever
\* limit and offset are, and the number of items is
\* min(limit, max(0, total - offset)).
C10_Total ==
    \A r \in Readers :
        (Done(r) /\ Unchanged(r)) =>
            LET a == readers[r].args
                snap == Snapshot(r)
                n == Cardinality({i \in 1..Len(snap) : Where(snap[i], a)})
            IN  /\ readers[r].total = n
                /\ Len(readers[r].items) =
                     Min(a.limit, Max(0, readers[r].total - a.offset))

\* A filtered listing on an unchanged table: some rows match, some do not,
\* and the offset cuts the page short.
C10_Witness ==
    \E r \in Readers :
        /\ Done(r) /\ Unchanged(r)
        /\ Given(readers[r].args.from_filter)
        /\ readers[r].total >= 2
        /\ readers[r].total < readers[r].seenData
        /\ readers[r].args.offset >= 1
        /\ Len(readers[r].items) < readers[r].args.limit

\* The listing arguments that keep only the q filter of a.
OnlyQ(a) == [a EXCEPT !.from_filter = None, !.since = None]

\* The rows of the table a listing with only the q filter of a counts.
QRows(rows, a) == Range(Matching(rows, OnlyQ(a)))

\* Row x (a stored row or a returned item, sender in field frm) passes the
\* from and since filters of a as C11 states them: the sender equals the
\* from filter, the ts string is not below the since filter.
PassesFromSince(frm, ts, a) ==
    /\ Given(a.from_filter) => frm = a.from_filter
    /\ Given(a.since) => ~TextLess(ts, a.since)

\* C11: the filters of a listing are ANDed: every returned item has the
\* sender of the from filter, a ts that is not lexicographically below the
\* since filter (equal is included) and is a row the q filter alone selects;
\* on an unchanged table total is the number of stored rows that pass all
\* the filters given.
C11_FilterComposition ==
    \A r \in Readers :
        Done(r) =>
            LET a == readers[r].args
                it == readers[r].items
                snap == Snapshot(r)
                qrows == QRows(snap, a)
            IN  /\ \A i \in 1..Len(it) :
                     /\ PassesFromSince(it[i].from, it[i].ts, a)
                     /\ Given(a.q) => \E x \in qrows : Item(x) = it[i]
                /\ Unchanged(r) =>
                     readers[r].total =
                       Cardinality({i \in 1..Len(snap) :
                          /\ PassesFromSince(snap[i].from_msisdn, snap[i].ts, a)
                          /\ Given(a.q) => snap[i] \in qrows})

\* A listing with all three filters on a table of three rows: the one row
\* returned has a ts equal to the since filter, one row fails the q filter
\* only and one fails the from filter.
C11_Witness ==
    \E r \in Readers :
        /\ Done(r) /\ Unchanged(r)
        /\ Given(readers[r].args.from_filter)
        /\ Given(readers[r].args.since)
        /\ Given(readers[r].args.q)
        /\ readers[r].seenData = 3
        /\ readers[r].total = 1
        /\ Len(readers[r].items) = 1
        /\ readers[r].items[1].ts = readers[r].args.since
        /\ \E i, j \in 1..3 :
             /\ messages[i].from_msisdn = readers[r].args.from_filter
             /\ messages[i].text = None
             /\ messages[j].from_msisdn # readers[r].args.from_filter
             /\ messages[j].text # None

\* text contains q as a contiguous run of the same characters.
Contains(text, q) ==
    \E k \in 0..(Len(text) - Len(q)) : SubSeq(text, k + 1, k + Len(q)) = q

\* C12: the q filter is a case-sensitive literal substring match: every
\* item a listing with a non-empty q returns has a text, and q occurs in it
\* with the same letter case; on an unchanged table total counts exactly the
\* rows whose text contains q.
C12_CaseSensitiveSubstring ==
    \A r \in Readers :
        (Done(r) /\ Given(readers[r].args.q)) =>
            LET a == readers[r].args
                snap == Snapshot(r)
            IN  /\ \A i \in 1..Len(readers[r].items) :
                     /\ readers[r].items[i].text # None
                     /\ Contains(readers[r].items[i].text, a.q)
                /\ (Unchanged(r) /\ ~Given(a.from_filter) /\ ~Given(a.since)) =>
                     readers[r].total =
                       Cardinality({i \in 1..Len(snap) :
                          /\ snap[i].text # None
                          /\ Contains(snap[i].text, a.q)})

----------------------------------------------------------------------------
(* Properties of the counters (checked under Spec) *)

\* The outcome an answered request ended with: one of the four labelled
\* outcomes, or "" for an answer that is none of them.
Outcome(e) ==
    IF e.resp = RespOk THEN "ok"
    ELSE IF e.resp = RespBadSignature THEN "invalid_signature"
    ELSE IF e.resp = RespBadJson THEN "invalid_json"
    ELSE IF e.resp = RespBadPayload THEN "invalid_payload"
    ELSE ""

Quiescent == \A p \in Workers : workers[p].pc = "idle"

\* C17: each outcome counter is the number of requests that ended with that
\* outcome (every such request added one to its own counter and to no
\* other); the newly-created counter is the number of inserts answered that
\* returned Created, none for a Duplicate; it never exceeds the ok counter
\* and, when no request is in progress, equals the number of stored rows.
C17_OutcomeCounters ==
    /\ \A l \in Labels :
         counters[l] = SumCopies({e \in Entries : Outcome(e) = l})
    /\ stored = SumCopies({e \in Entries : e.insert = "Created"})
    /\ stored <= counters["ok"]
    /\ Quiescent => stored = Len(messages)

\* A message delivered twice and a rejected request, all answered: ok is 2,
\* newly-created is 1, one rejection counter is 1.
C17_Witness ==
    /\ Quiescent
    /\ counters["ok"] = 2
    /\ stored = 1
    /\ Len(messages) = 1
    /\ counters["invalid_payload"] + counters["invalid_json"]
         + counters["invalid_signature"] = 1

----------------------------------------------------------------------------
(* Properties of the statistics (checked under SpecStats) *)

StatsReturned(r) == readers[r].pc = "returned"

\* The first and the last query of the get_stats call of reader r saw the
\* same table (rows are only appended).
StatsUnchanged(r) == readers[r].seenFirst = readers[r].seenLast

\* The table as the last query of the call saw it.
StatsSnapshot(r) == SubSeq(messages, 1, readers[r].seenLast)

\* C13: get_stats on a table without rows returns, and does not raise:
\* total_messages 0, senders_count 0, messages_per_sender empty, and no first
\* and no last timestamp.
C13_EmptyStoreStats ==
    \A r \in Readers :
        /\ readers[r].pc # "raised"
        /\ (StatsReturned(r) /\ readers[r].seenLast = 0) =>
             StatsData(readers[r]) =
               [total_messages |-> 0, senders_count |-> 0,
                messages_per_sender |-> <<>>, first_message_ts |-> None,
                last_message_ts |-> None]

\* A get_stats call has returned and the table is still empty.
C13_Witness ==
    \E r \in Readers :
        /\ StatsReturned(r)
        /\ readers[r].caller = "stats"
        /\ readers[r].seenLast = 0
        /\ messages = <<>>

\* C14: on a table that did not change during the call, get_stats returns
\* the number of rows, the number of distinct senders, min(10, senders)
\* entries of distinct senders, each with its number of rows, with counts
\* that do not increase and no sender left out that has more rows than a
\* listed one, and the smallest and the largest stored ts.
C14_StatsFields ==
    \A r \in Readers :
        (StatsReturned(r) /\ StatsUnchanged(r)) =>
            LET d == StatsData(readers[r])
                snap == StatsSnapshot(r)
                rowsOf(x) == {i \in 1..Len(snap) : snap[i].from_msisdn = x}
                senders == {snap[i].from_msisdn : i \in 1..Len(snap)}
                top == d.messages_per_sender
                listed == {top[i].sender : i \in 1..Len(top)}
            IN  /\ d.total_messages = Len(snap)
                /\ d.senders_count = Cardinality(senders)
                /\ Len(top) = Min(10, d.senders_count)
                /\ Cardinality(listed) = Len(top)
                /\ \A i \in 1..Len(top) :
                     /\ top[i].sender \in senders
                     /\ top[i].count = Cardinality(rowsOf(top[i].sender))
                     /\ i < Len(top) => top[i].count >= top[i + 1].count
                     /\ \A x \in senders \ listed :
                          Cardinality(rowsOf(x)) <= top[i].count
                /\ snap # <<>> =>
                     /\ \E i \in 1..Len(snap) : d.first_message_ts = snap[i].ts
                     /\ \E i \in 1..Len(snap) : d.last_message_ts = snap[i].ts
                     /\ \A i \in 1..Len(snap) :
                          /\ ~TextLess(snap[i].ts, d.first_message_ts)
                          /\ ~TextLess(d.last_message_ts, snap[i].ts)

\* get_stats returned on an unchanged table of more than ten senders: ten
\* are listed, the first with more rows than the last, and first and last
\* timestamp differ.
C14_Witness ==
    \E r \in Readers :
        /\ StatsReturned(r) /\ StatsUnchanged(r)
        /\ readers[r].senders_count > 10
        /\ Len(readers[r].messages_per_sender) = 10
        /\ readers[r].messages_per_sender[1].count >
             readers[r].messages_per_sender[10].count
        /\ readers[r].total_messages > Len(ElevenSenders)
        /\ readers[r].first_message_ts # readers[r].last_message_ts

RECURSIVE SumCounts(_)
SumCounts(top) ==
    IF top = <<>> THEN 0 ELSE top[1].count + SumCounts(Tail(top))

\* C20: what get_stats returns is the statistics of one table that existed
\* between its start and its return, also while inserts commit: the five
\* fields fit together (no timestamp and no sender entry with
\* total_messages 0, senders_count and the sum of the sender counts at most
\* total_messages).
C20_StatsSnapshot ==
    \A r \in Readers :
        StatsReturned(r) =>
            LET d == StatsData(readers[r])
            IN  /\ d.total_messages = 0 =>
                     /\ d.first_message_ts = None
                     /\ d.last_message_ts = None
                     /\ d.messages_per_sender = <<>>
                /\ d.senders_count <= d.total_messages
                /\ SumCounts(d.messages_per_sender) <= d.total_messages
                /\ \E k \in readers[r].seenFirst..readers[r].seenLast :
                     LET t == SubSeq(messages, 1, k)
                     IN  /\ d.total_messages = Len(t)
                         /\ d.senders_count = Cardinality(SendersOf(t))
                         /\ \E desc \in BOOLEAN :
                              d.messages_per_sender = TopSenders(t, desc)
                         /\ d.first_message_ts = FirstTs(t)
                         /\ d.last_message_ts = LastTs(t)

----------------------------------------------------------------------------
(* Properties of the probes (checked under SpecProbe) *)

\* C19: the liveness probe answers 200 in every state, with or without
\* secret and database, and opens no connection; the readiness probe answers
\* 503 without opening a connection when the secret is not configured,
\* otherwise it connects and answers 503 when the database cannot be
\* reached and 200 when it can; no step of a probe changes the table.
C19_Probes ==
    [][ \A r \in Readers :
          LET old == readers[r]
              new == readers'[r]
          IN  new # old =>
                /\ messages' = messages
                /\ dbLock' = dbLock
                /\ (old.pc = "idle" /\ new.pc = "responded") =>
                     IF new.endpoint = "live"
                     THEN new.resp.status = 200 /\ new.connects = 0
                     ELSE /\ new.endpoint = "ready"
                          /\ secret = NoSecret
                          /\ new.resp.status = 503
                          /\ new.connects = 0
                /\ (old.pc = "idle" /\ new.pc = "connect") =>
                     secret # NoSecret
                /\ old.pc = "connect" => (new.pc = "raised" <=> ~dbUp)
                /\ (old.pc = "raised" /\ new.pc = "responded") =>
                     new.resp.status = 503
                /\ (old.pc = "returned" /\ new.pc = "responded") =>
                     new.resp.status = 200
      ]_vars

\* With the secret configured and a message stored, the readiness probe
\* has answered 503 because the database could not be opened.
C19_Witness ==
    \E r \in Readers :
        /\ readers[r].pc = "responded"
        /\ readers[r].endpoint = "ready"
        /\ readers[r].resp.status = 503
        /\ readers[r].connects = 1
        /\ secret = Secret1
        /\ ~dbUp
        /\ Len(messages) >= 1

----------------------------------------------------------------------------
(* Properties of the listing parameters (checked under SpecParams) *)

\* The number a query parameter stands for; 0 when it is no number.
Number(raw) ==
    IF raw # None /\ raw # <<>> /\ IsDigits(raw) THEN NumVal(raw)
    ELSE IF raw # None /\ Len(raw) >= 2 /\ raw[1] = "-" /\ IsDigits(Tail(raw))
    THEN 0 - NumVal(Tail(raw))
    ELSE 0

IsNumber(raw) ==
    \/ raw # <<>> /\ IsDigits(raw)
    \/ Len(raw) >= 2 /\ raw[1] = "-" /\ IsDigits(Tail(raw))

\* The query string asks for a limit in [1,100] or none, and for an offset
\* of at least 0 or none.
Acceptable(qp) ==
    /\ qp.limit # None =>
         IsNumber(qp.limit) /\ Number(qp.limit) \in 1..100
    /\ qp.offset # None => IsNumber(qp.offset) /\ Number(qp.offset) >= 0

\* C18: a listing request whose limit is outside [1,100] or whose offset is
\* below 0 is answered 422 before a connection is opened, and no request
\* with such a value reaches list_messages; a request that leaves limit or
\* offset out is served with limit 50 and offset 0; the page returned echoes
\* the requested (or default) limit and offset, and these are the ones the
\* data query used.
C18_ListingParameters ==
    \A r \in Readers :
        LET rd == readers[r]
        IN  /\ (rd.pc = "responded" /\ rd.endpoint = "messages"
                 /\ rd.connects = 0) =>
                  /\ ~Acceptable(rd.query)
                  /\ rd.resp.status = 422
            /\ rd.pc \in {"count", "data", "done"} =>
                  /\ Acceptable(rd.args.query)
                  /\ rd.args.limit =
                       (IF rd.args.query.limit = None THEN 50
                        ELSE Number(rd.args.query.limit))
                  /\ rd.args.offset =
                       (IF rd.args.query.offset = None THEN 0
                        ELSE Number(rd.args.query.offset))
            /\ Done(r) =>
                  LET page == MessagesPage(rd)
                      want == [limit |-> IF rd.args.query.limit = None THEN 50
                                         ELSE Number(rd.args.query.limit),
                               offset |-> IF rd.args.query.offset = None THEN 0
                                          ELSE Number(rd.args.query.offset)]
                      all == Items(OrderBy(Snapshot(r)))
                  IN  /\ page.limit = want.limit
                      /\ page.offset = want.offset
                      /\ page.items =
                           SubSeq(all, page.offset + 1,
                                  Min(Len(all), page.offset + page.limit))

\* A request with limit 101 has been refused while the table holds rows.
C18_Witness ==
    \E r \in Readers :
        /\ readers[r].pc = "responded"
        /\ readers[r].endpoint = "messages"
        /\ readers[r].resp.status = 422
        /\ readers[r].query.limit = <<"1", "0", "1">>
        /\ readers[r].query.offset = None
        /\ Len(messages) >= 2

----------------------------------------------------------------------------
(* Properties of the signature check (checked under SpecSignature) *)

\* C15: a request whose header is the HMAC of its body under the service's
\* secret, bare or surrounded by whitespace, passes verify_signature and is
\* accepted; a header that is the HMAC under another secret, or the HMAC of
\* other body bytes (also bytes of the same JSON value), fails it and is
\* answered 401.
C15_SignatureCorrectness ==
    \A e \in Entries :
        LET b == e.req.body
            v == verify_signature(secret, b, e.req.sig)
        IN  /\ e.req.sig \in Padded(HmacHex(secret, b)) =>
                 v = "True" /\ e.resp.status = 200
            /\ \A k \in Secrets \ {secret} :
                 e.req.sig \in Padded(HmacHex(k, b)) =>
                     v = "False" /\ e.resp.status = 401
            /\ \A other \in SignedBodies \ {b} :
                 e.req.sig \in Padded(HmacHex(secret, other)) =>
                     v = "False" /\ e.resp.status = 401

\* Three requests with the same body were answered: one with the padded
\* HMAC under the service's secret (accepted), one with the HMAC under the
\* other secret and one with the HMAC of the other bytes of the same JSON
\* value (both 401).
C15_Witness ==
    \E x, y, z \in Entries :
        /\ x.req.body = Body1 /\ y.req.body = Body1 /\ z.req.body = Body1
        /\ x.req.sig = <<" ">> \o HmacHex(secret, Body1) \o <<"\n">>
        /\ x.resp.status = 200
        /\ \E k \in Secrets \ {secret} : y.req.sig = HmacHex(k, Body1)
        /\ y.resp.status = 401
        /\ z.req.sig = HmacHex(secret, Body1Spaced)
        /\ z.resp.status = 401

----------------------------------------------------------------------------
(* Properties of the validation (checked under SpecValidation) *)

\* + followed by 2 to 15 digits, the first of them 1 to 9.
IsE164(v) ==
    /\ Len(v) \in 3..16
    /\ v[1] = "+"
    /\ v[2] \in Digits \ {"0"}
    /\ \A i \in 3..Len(v) : v[i] \in Digits

\* YYYY-MM-DDTHH:MM:SSZ
IsIsoUtc(v) ==
    /\ Len(v) = 20
    /\ \A i \in {1, 2, 3, 4, 6, 7, 9, 10, 12, 13, 15, 16, 18, 19} :
         v[i] \in Digits
    /\ v[5] = "-" /\ v[8] = "-" /\ v[11] = "T"
    /\ v[14] = ":" /\ v[17] = ":" /\ v[20] = "Z"
    /\ NumVal(SubSeq(v, 6, 7)) \in 1..12
    /\ NumVal(SubSeq(v, 9, 10)) \in 1..31
    /\ NumVal(SubSeq(v, 12, 13)) \in 0..23
    /\ NumVal(SubSeq(v, 15, 16)) \in 0..59
    /\ NumVal(SubSeq(v, 18, 19)) \in 0..59

NotBlank(v) == \E i \in 1..Len(v) : v[i] \notin Whitespace

\* The rules of the validation gate on the five fields (None: absent).
Conforms(mid, frm, to, ts, text) ==
    /\ mid # None /\ NotBlank(mid)
    /\ frm # None /\ IsE164(frm)
    /\ to # None /\ IsE164(to)
    /\ ts # None /\ IsIsoUtc(ts)
    /\ text = None \/ Len(text) <= 4096

ConformsDoc(doc) ==
    /\ doc.kind = "object"
    /\ Conforms(Field(doc, "message_id"), Field(doc, "from"),
                Field(doc, "to"), Field(doc, "ts"), Field(doc, "text"))

\* C16: every stored row has a message_id that is not blank, from and to in
\* E.164, a ts in ISO-8601 with Z and a text that is absent or at most 4096
\* long; a signed payload that breaks a rule is answered 422 and its insert
\* is not called, and one that keeps all rules (also with text of length
\* 4096, also with unknown extra fields) is accepted.
C16_ValidationGate ==
    /\ \A i \in 1..Len(messages) :
         Conforms(messages[i].message_id, messages[i].from_msisdn,
                  messages[i].to_msisdn, messages[i].ts, messages[i].text)
    /\ \A e \in Entries :
         IF ConformsDoc(e.req.body.doc)
         THEN e.resp.status = 200
         ELSE e.resp.status = 422 /\ e.insert = "NotCalled"

----------------------------------------------------------------------------
(* Properties of a listing concurrent with inserts (checked under SpecQuery) *)

\* C21: total and items of a listing come from one table that existed
\* between its count query and its data query, also while inserts commit:
\* the items are the page [offset, offset + limit) of the matching rows of a
\* table whose number of matching rows is total, so there are at most
\* max(0, total - offset) items and total is not below their number.
C21_ListSnapshot ==
    \A r \in Readers :
        Done(r) =>
            LET a == readers[r].args
                it == readers[r].items
            IN  /\ Len(it) <= Max(0, readers[r].total - a.offset)
                /\ readers[r].total >= Len(it)
                /\ \E k \in readers[r].seenCount..readers[r].seenData :
                     LET t == SubSeq(messages, 1, k)
                     IN  /\ readers[r].total = CountQuery(t, a)
                         /\ it = Items(DataQuery(t, a))

----------------------------------------------------------------------------
(* Properties of malformed requests (checked under Spec) *)

\* The header of the request is the HMAC of its body under the service's
\* secret, bare or surrounded by whitespace.
SignedBySecret(req) ==
    req.sig \in {HmacHex(secret, req.body),
                 <<" ">> \o HmacHex(secret, req.body) \o <<"\n">>}

\* The body is no JSON text: its bytes are no UTF-8, or no JSON syntax.
NotJson(body) == ~body.utf8 \/ ~body.json

\* C22: with a secret configured, a validly signed request whose body is no
\* JSON text (also one whose bytes are no UTF-8) is answered 400, booked
\* under invalid_json alone and never answered with an internal error; a
\* JSON body that is no message object is answered 422.
C22_MalformedJson ==
    secret # NoSecret =>
        /\ \A e \in Entries :
             SignedBySecret(e.req) =>
                 /\ NotJson(e.req.body) => e.resp = RespBadJson
                 /\ e.resp.status # 500
                 /\ (~NotJson(e.req.body) /\ e.req.body.doc.kind # "object")
                      => e.resp.status = 422
        /\ counters["invalid_json"] =
             SumCopies({e \in Entries :
                          SignedBySecret(e.req) /\ NotJson(e.req.body)})

\* C23: with a secret configured, a request whose signature header is not
\* the digest of its body (whatever characters it holds) makes
\* verify_signature return false: it is answered 401 and booked under
\* invalid_signature, never answered with an internal error.
C23_BadSignatureRejected ==
    secret # NoSecret =>
        /\ \A e \in Entries :
             (e.req.sig # None /\ ~SignedBySecret(e.req)) =>
                 /\ verify_signature(secret, e.req.body, e.req.sig) = "False"
                 /\ e.resp = RespBadSignature
        /\ counters["invalid_signature"] =
             SumCopies({e \in Entries :
                          e.req.sig # None /\ ~SignedBySecret(e.req)})

----------------------------------------------------------------------------
(* Properties of empty filters (checked under SpecEmptyFilter) *)

\* The arguments with every filter that is the empty string left out.
WithoutEmpty(a) ==
    [a EXCEPT !.from_filter = IF @ = <<>> THEN None ELSE @,
              !.since = IF @ = <<>> THEN None ELSE @,
              !.q = IF @ = <<>> THEN None ELSE @]

SomeEmpty(a) == a.from_filter = <<>> \/ a.since = <<>> \/ a.q = <<>>

NoFilterSet(a) ==
    /\ a.from_filter \in {None, <<>>}
    /\ a.since \in {None, <<>>}
    /\ a.q \in {None, <<>>}

\* C24: a listing with a filter given as the empty string returns the
\* items, and on an unchanged table the total, of the listing without that
\* filter; with no other filter set these are the first rows of the whole
\* table in (ts, message_id) order and the number of all rows, not none.
C24_EmptyFilterIgnored ==
    \A r \in Readers :
        (Done(r) /\ SomeEmpty(readers[r].args)) =>
            LET a == readers[r].args
                snap == Snapshot(r)
            IN  /\ readers[r].items = Items(DataQuery(snap, WithoutEmpty(a)))
                /\ Unchanged(r) =>
                     readers[r].total = CountQuery(snap, WithoutEmpty(a))
                /\ NoFilterSet(a) =>
                     /\ Len(readers[r].items) = Min(a.limit, Len(snap))
                     /\ Unchanged(r) => readers[r].total = Len(snap)
                     /\ \A i \in 1..Len(readers[r].items) :
                          \E j \in 1..Len(snap) :
                              Item(snap[j]) = readers[r].items[i]

\* A listing with from, since and q all given as the empty string on an
\* unchanged table of three rows, one of them without text: all three are
\* counted and a full page is returned.
C24_Witness ==
    \E r \in Readers :
        /\ Done(r) /\ Unchanged(r)
        /\ readers[r].args.from_filter = <<>>
        /\ readers[r].args.since = <<>>
        /\ readers[r].args.q = <<>>
        /\ readers[r].seenData = 3
        /\ readers[r].total = 3
        /\ Len(readers[r].items) = readers[r].args.limit
        /\ \E i \in 1..3 : messages[i].text = None
====
